---- MODULE Spec2Model ----
(***************************************************************************)
(* Model of verify-static-linking.py: StaticLinkingVerifier.verify, its    *)
(* three platform back ends, and print_result.                             *)
(*                                                                         *)
(* Text is modelled as a sequence of atoms (short strings).  Every marker  *)
(* the code searches for ("=>", "/lib/", ".dll", ...) is a whole number of *)
(* atoms, so Python's `in`, startswith, endswith, strip and split are      *)
(* computed on the atom sequence.  A tool output is a sequence of lines.   *)
(***************************************************************************)
EXTENDS Integers, Sequences, FiniteSets, TLC

VARIABLES pc, platform, binaryState, strict, verbose, tool, invoked, result,
          printed, exitCode

\* build-static.py, StaticBuilder.verify_binaries
VARIABLES bpc, binaries, scriptExists, nextBinary, all_passed, runs, sweepResult

\* build-static.py, main
VARIABLES mpc, cleanFlag, verifyFlag, started, finished, banner, mainExit

\* update_tasks.py, update_task_status
VARIABLES tpc, original, fileLines, newStatus, task_ids, nextTask, updated, not_found,
          written, taskExit

\* the verifier's state
vvars == <<pc, platform, binaryState, strict, verbose, tool, invoked, result,
           printed, exitCode>>

\* the build wrapper's state
bvars == <<bpc, binaries, scriptExists, nextBinary, all_passed, runs, sweepResult>>

\* the state of build-static's main
mvars == <<mpc, cleanFlag, verifyFlag, started, finished, banner, mainExit>>

\* the task updater's state
tvars == <<tpc, original, fileLines, newStatus, task_ids, nextTask, updated, not_found,
           written, taskExit>>

vars == <<vvars, bvars, mvars, tvars>>

(* ------------------------------ bounds --------------------------------- *)
MaxLinuxLines == 3
MaxMacLines == 5
MaxWinLines == 4
MaxBinaries == 3

(* ------------------------- Python str helpers -------------------------- *)
SP == " "
TAB == "\t"
Whitespace == {SP, TAB}

\* m in s
Contains(s, m) ==
    \E i \in 0..(Len(s) - Len(m)) : SubSeq(s, i + 1, i + Len(m)) = m

\* s.startswith(m)
StartsWith(s, m) == Len(m) <= Len(s) /\ SubSeq(s, 1, Len(m)) = m

\* s.endswith(m)
EndsWith(s, m) ==
    Len(m) <= Len(s) /\ SubSeq(s, Len(s) - Len(m) + 1, Len(s)) = m

IsBlank(s) == \A i \in 1..Len(s) : s[i] \in Whitespace

LStrip(s) ==
    IF IsBlank(s) THEN <<>>
    ELSE LET k == CHOOSE i \in 1..Len(s) :
                     s[i] \notin Whitespace /\ \A j \in 1..(i - 1) : s[j] \in Whitespace
         IN SubSeq(s, k, Len(s))

RStrip(s) ==
    IF IsBlank(s) THEN <<>>
    ELSE LET k == CHOOSE i \in 1..Len(s) :
                     s[i] \notin Whitespace /\ \A j \in (i + 1)..Len(s) : s[j] \in Whitespace
         IN SubSeq(s, 1, k)

\* s.strip()
Strip(s) == RStrip(LStrip(s))

\* s.split(sep)
RECURSIVE SplitOn(_, _)
SplitOn(s, sep) ==
    IF \A i \in 1..Len(s) : s[i] # sep THEN <<s>>
    ELSE LET k == CHOOSE i \in 1..Len(s) :
                     s[i] = sep /\ \A j \in 1..(i - 1) : s[j] # sep
         IN <<SubSeq(s, 1, k - 1)>> \o SplitOn(SubSeq(s, k + 1, Len(s)), sep)

\* s.split()
RECURSIVE SplitWs(_)
SplitWs(s) ==
    LET t == LStrip(s) IN
    IF t = <<>> THEN <<>>
    ELSE LET k == IF \A i \in 1..Len(t) : t[i] \notin Whitespace THEN Len(t) + 1
                  ELSE CHOOSE i \in 1..Len(t) :
                           t[i] \in Whitespace /\ \A j \in 1..(i - 1) : t[j] \notin Whitespace
         IN <<SubSeq(t, 1, k - 1)>> \o SplitWs(SubSeq(t, k, Len(t)))

\* s.lower(), atom by atom
LowerAtom(a) ==
    CASE a = "KERNEL32" -> "kernel32"
      [] a = "NTDLL" -> "ntdll"
      [] a = ".DLL" -> ".dll"
      [] OTHER -> a

Lower(s) == [i \in 1..Len(s) |-> LowerAtom(s[i])]

\* text.strip().splitlines() on a whole output: leading and trailing blank
\* lines go, the first line loses its leading and the last its trailing blanks
RECURSIVE DropBlankHead(_)
DropBlankHead(ls) ==
    IF ls = <<>> THEN <<>>
    ELSE IF IsBlank(Head(ls)) THEN DropBlankHead(Tail(ls))
    ELSE <<LStrip(Head(ls))>> \o Tail(ls)

RECURSIVE DropBlankTail(_)
DropBlankTail(ls) ==
    IF ls = <<>> THEN <<>>
    ELSE IF IsBlank(ls[Len(ls)]) THEN DropBlankTail(SubSeq(ls, 1, Len(ls) - 1))
    ELSE SubSeq(ls, 1, Len(ls) - 1) \o <<RStrip(ls[Len(ls)])>>

StripLines(ls) == DropBlankTail(DropBlankHead(ls))

\* All sequences over S of length at most n
SeqsUpTo(S, n) == UNION {[1..k -> S] : k \in 0..n}


(* ----------------------------- data model ------------------------------ *)
SUCCESS == "SUCCESS"
WARNING == "WARNING"
ERROR == "ERROR"
Status == {SUCCESS, WARNING, ERROR}

\* Optional[str]
NoPath == [some |-> FALSE, val |-> <<>>]
SomePath(p) == [some |-> TRUE, val |-> p]

Dependency(name, path, is_system) ==
    [name |-> name, path |-> path, is_system |-> is_system]

BinaryPath == "build/myapp"

VerificationResult(status, plat, dependencies, message, details) ==
    [status |-> status, platform |-> plat, binary |-> BinaryPath,
     dependencies |-> dependencies, message |-> message, details |-> details]

\* no result yet
NoResult == VerificationResult("NONE", "", <<>>, <<>>, <<>>)

\* [d for d in deps if not d.is_system]
NonSystemDeps(deps) == SelectSeq(deps, LAMBDA d : ~d.is_system)

\* [d for d in deps if d.is_system]
SystemDeps(deps) == SelectSeq(deps, LAMBDA d : d.is_system)

\* f"{n}"
Str(n) == ToString(n)

(* --------------------- the external inspection tool -------------------- *)
\* what subprocess.run did: raised FileNotFoundError, raised TimeoutExpired,
\* or returned a CompletedProcess with returncode, stdout and stderr
ToolNotFound == [kind |-> "notfound", returncode |-> 0, stdout |-> <<>>, stderr |-> <<>>]
ToolTimeout == [kind |-> "timeout", returncode |-> 0, stdout |-> <<>>, stderr |-> <<>>]
Completed(rc, out, err) == [kind |-> "ran", returncode |-> rc, stdout |-> out, stderr |-> err]
NoTool == [kind |-> "none", returncode |-> 0, stdout |-> <<>>, stderr |-> <<>>]

\* str(e) of the exception caught by `except Exception as e`
TimeoutText == "Command timed out after 10 seconds"
IndexErrorText == "list index out of range"

\* a captured stream as one string: its lines joined by newlines
RECURSIVE JoinLines(_)
JoinLines(ls) ==
    IF ls = <<>> THEN <<>> ELSE Head(ls) \o <<"\n">> \o JoinLines(Tail(ls))

(* ------------------------------- Linux --------------------------------- *)
LibcLine == <<TAB, "libc.so.6", SP, "=>", SP, "/lib/", "x86_64-linux-gnu/libc.so.6", SP, "(0x1)">>
FooLine == <<TAB, "libfoo.so", SP, "=>", SP, "/opt/foo/", "libfoo.so", SP, "(0x2)">>
MissingLine == <<TAB, "libbar.so", SP, "=>", SP, "not", SP, "found">>
VdsoLine == <<TAB, "linux-vdso", ".so.1", SP, "=>", SP, "(0x3)">>
LdLinuxLine == <<TAB, "/lib64/", "ld-linux", "-x86-64.so.2", SP, "(0x4)">>
NoPathLine == <<TAB, "libx.so", SP, "=>">>
NotDynamicLine == <<TAB, "not a dynamic", " executable">>
LddErrorLine == <<"ldd:", SP, "exited with unknown exit code">>

LinuxLines == {LibcLine, FooLine, MissingLine, VdsoLine, LdLinuxLine, NoPathLine,
               NotDynamicLine}
LinuxStderr == {<<>>, <<NotDynamicLine>>, <<LddErrorLine>>}

LinuxTools ==
    {ToolNotFound, ToolTimeout} \cup
    {Completed(rc, out, err) : rc \in {0, 1}, out \in SeqsUpTo(LinuxLines, MaxLinuxLines),
                               err \in LinuxStderr}

LinuxSystemMarkers == {<<"/lib/">>, <<"/usr", "/lib/">>, <<"linux-vdso">>, <<"ld-linux">>}

\* lib_path and any(p in lib_path for p in [...])
LinuxIsSystem(lib_path) ==
    lib_path.some /\ \E p \in LinuxSystemMarkers : Contains(lib_path.val, p)

\* the body of the parse loop for one line: <<>> or one Dependency
LinuxLineDeps(rawline) ==
    LET line == Strip(rawline) IN
    IF Contains(line, <<"=>">>)
    THEN LET parts == SplitOn(line, "=>")
             lib_name == Strip(parts[1])
             rest == Strip(parts[2])
             lib_path == IF Len(rest) > 0 THEN SomePath(SplitWs(rest)[1]) ELSE NoPath
             is_system == LinuxIsSystem(lib_path)
         IN <<Dependency(lib_name, lib_path, is_system)>>
    ELSE <<>>

RECURSIVE ParseLinux(_)
ParseLinux(lines) ==
    IF lines = <<>> THEN <<>> ELSE LinuxLineDeps(Head(lines)) \o ParseLinux(Tail(lines))

\* mutant: the strict downgrade applied to the empty list as well
LinuxEmptyStatusStrict(s) == IF s THEN WARNING ELSE SUCCESS

\* status of the "no dependencies" result: strict is not consulted
LinuxEmptyStatus(s) == SUCCESS

\* mutant: strict mode fails the run
LinuxSystemOnlyStatusFails(s) == IF s THEN ERROR ELSE SUCCESS

\* Status.WARNING if self.strict else Status.SUCCESS
LinuxSystemOnlyStatus(s) == IF s THEN WARNING ELSE SUCCESS

LinuxEvaluate(s, deps) ==
    LET non_system_deps == NonSystemDeps(deps) IN
    IF deps = <<>>
    THEN VerificationResult(LinuxEmptyStatus(s), "Linux", <<>>, <<"Fully static binary">>,
                            <<<<"No dynamic dependencies found">>>>)
    ELSE IF non_system_deps = <<>>
    THEN VerificationResult(LinuxSystemOnlyStatus(s), "Linux", deps,
                            IF ~s THEN <<"Mostly static (only system libs)">>
                                  ELSE <<"Not fully static">>,
                            << <<"System dependencies: ", Str(Len(deps))>>,
                               <<"All dependencies are system libraries">> >>)
    ELSE VerificationResult(ERROR, "Linux", deps,
                            <<"Dynamic binary with ", Str(Len(non_system_deps)),
                              " non-system dependencies">>,
                            << <<"Total dependencies: ", Str(Len(deps))>>,
                               <<"Non-system dependencies: ", Str(Len(non_system_deps))>> >>)

\* mutant: the marker counts only when it is the whole output
LinuxIsStaticAlone(output) ==
    /\ Len(output) = 1
    /\ Contains(output[1], <<"not a dynamic">>)

\* "not a dynamic executable" in output or "not a dynamic" in output
LinuxIsStatic(output) ==
    \E i \in 1..Len(output) :
        \/ Contains(output[i], <<"not a dynamic", " executable">>)
        \/ Contains(output[i], <<"not a dynamic">>)

verify_linux(s, t) ==
    IF t.kind = "notfound"
    THEN VerificationResult(ERROR, "Linux", <<>>, <<"ldd command ", "not found">>,
                            <<<<"Install binutils package">>>>)
    ELSE IF t.kind = "timeout"
    THEN VerificationResult(ERROR, "Linux", <<>>, <<"Error running ldd: ", TimeoutText>>, <<>>)
    ELSE LET output == t.stdout \o t.stderr IN
         IF LinuxIsStatic(output)
         THEN VerificationResult(SUCCESS, "Linux", <<>>,
                                 <<"Fully static binary", " (no dynamic dependencies)">>,
                                 << <<"Binary is completely static">>,
                                    <<"No shared libraries linked">> >>)
         ELSE LinuxEvaluate(s, ParseLinux(output))

(* ------------------------------- macOS --------------------------------- *)
InstallNameLine == <<"build/", "myapp:">>
LibSystemLine == <<TAB, "/usr", "/lib/", "libSystem.B.dylib", SP, "(compatibility version 1.0.0)">>
LibCxxLine == <<TAB, "/usr", "/lib/", "libc++.1.dylib", SP, "(compatibility version 1.0.0)">>
HomebrewLine == <<TAB, "/opt/homebrew", "/lib/", "libssl.3.dylib", SP, "(compatibility version 3.0.0)">>
SysrootLibSystemLine ==
    <<TAB, "/opt/sysroot", "/usr", "/lib/", "libSystem.B.dylib", SP, "(compatibility version 1.0.0)">>
BlankLine == <<>>

MacLines == {InstallNameLine, LibSystemLine, LibCxxLine, HomebrewLine, SysrootLibSystemLine,
             BlankLine}
OtoolErrorLine == <<"otool:", SP, "object is not a Mach-O file">>

\* a failing otool run prints to stderr only
MacTools ==
    {ToolNotFound, ToolTimeout, Completed(1, <<>>, <<OtoolErrorLine>>), Completed(1, <<>>, <<>>)}
    \cup {Completed(0, out, <<>>) : out \in SeqsUpTo(MacLines, MaxMacLines)}

MacSystemPrefixes == {<<"/usr", "/lib/">>, <<"/System/Library/">>}
LibSystemPath == <<"/usr", "/lib/", "libSystem.B.dylib">>
MacManyThreshold == 3

\* Path(lib_path).name: the paths of the vocabulary end in a file-name atom
PathName(p) == <<p[Len(p)]>>

\* lib_path.startswith("/usr/lib/") or lib_path.startswith("/System/Library/")
MacIsSystem(lib_path) == \E p \in MacSystemPrefixes : StartsWith(lib_path, p)

\* the body of the parse loop for one line; the line is not blank
MacLineDep(line) ==
    LET lib_path == SplitWs(Strip(line))[1]
        is_system == MacIsSystem(lib_path)
    IN Dependency(PathName(lib_path), SomePath(lib_path), is_system)

ParseMac(lines) == [i \in 1..(Len(lines) - 1) |-> MacLineDep(lines[i + 1])]

\* line.strip().split()[0] raises IndexError on a blank line
MacParseRaises(lines) == \E i \in 2..Len(lines) : IsBlank(lines[i])

\* the condition of the "only libSystem.B.dylib" branch
MacIsOptimal(deps) == Len(deps) = 1 /\ Contains(deps[1].path.val, LibSystemPath)

\* mutant: off-by-one threshold
MacFewExclusive(deps) == Len(deps) < MacManyThreshold

\* len(deps) <= 3
MacFew(deps) == Len(deps) <= MacManyThreshold

MacEvaluate(s, deps) ==
    LET non_system_deps == NonSystemDeps(deps) IN
    IF MacIsOptimal(deps)
    THEN VerificationResult(SUCCESS, "macOS", deps,
                            <<"Optimal", " static binary (only libSystem required by macOS)">>,
                            << <<"Only system library: libSystem.B.dylib">>,
                               <<"Third-party libraries are statically linked">> >>)
    ELSE IF non_system_deps = <<>>
    THEN IF MacFew(deps)
         THEN VerificationResult(SUCCESS, "macOS", deps,
                                 <<"Good static binary (only system libs)">>,
                                 << <<"System dependencies: ", Str(Len(deps))>>,
                                    <<"All dependencies are system libraries">> >>)
         ELSE VerificationResult(WARNING, "macOS", deps,
                                 <<"Many system dependencies (", Str(Len(deps)), ")">>,
                                 << <<"System dependencies: ", Str(Len(deps))>>,
                                    <<"Consider reviewing dependencies">> >>)
    ELSE VerificationResult(ERROR, "macOS", deps,
                            <<"Dynamic binary with ", Str(Len(non_system_deps)),
                              " third-party dependencies">>,
                            << <<"Total dependencies: ", Str(Len(deps))>>,
                               <<"Non-system dependencies: ", Str(Len(non_system_deps))>> >>)

verify_macos(s, t) ==
    IF t.kind = "notfound"
    THEN VerificationResult(ERROR, "macOS", <<>>, <<"otool command ", "not found">>,
                            <<<<"Install Xcode Command Line Tools">>>>)
    ELSE IF t.kind = "timeout"
    THEN VerificationResult(ERROR, "macOS", <<>>, <<"Error running otool: ", TimeoutText>>, <<>>)
    ELSE IF t.returncode # 0
    THEN VerificationResult(ERROR, "macOS", <<>>, <<"otool failed: ">> \o JoinLines(t.stderr), <<>>)
    ELSE LET lines == StripLines(t.stdout) IN
         IF Len(lines) <= 1
         THEN VerificationResult(SUCCESS, "macOS", <<>>,
                                 <<"No dependencies (unusual but valid)">>, <<>>)
         ELSE IF MacParseRaises(lines)
         THEN VerificationResult(ERROR, "macOS", <<>>,
                                 <<"Error running otool: ", IndexErrorText>>, <<>>)
         ELSE MacEvaluate(s, ParseMac(lines))

(* ------------------------------ Windows -------------------------------- *)
DumpBannerLine == <<"Dump of file ", "app.exe">>
DependenciesMarker == "Image has the following dependencies:"
MarkerLine == <<SP, SP, DependenciesMarker>>
KernelLine == <<SP, SP, SP, SP, "KERNEL32", ".dll">>
MyLibLine == <<SP, SP, SP, SP, "mylib", ".dll">>
NtdllUpperLine == <<SP, SP, SP, SP, "NTDLL", ".DLL">>
SummaryLine == <<SP, SP, "Summary">>

WinLines == {DumpBannerLine, MarkerLine, KernelLine, MyLibLine, NtdllUpperLine, SummaryLine,
             BlankLine}

\* a failing dumpbin run prints nothing that is read
WinTools ==
    {ToolNotFound, ToolTimeout, Completed(1, <<>>, <<>>)}
    \cup {Completed(0, out, <<>>) : out \in SeqsUpTo(WinLines, MaxWinLines)}

WinSystemDlls == {"kernel32", "ntdll", "msvcrt", "ucrtbase"}

\* mutant: the name is matched without lower-casing
WinIsSystemCaseSensitive(line) == \E d \in WinSystemDlls : Contains(line, <<d>>)

\* any(sys_dll in line.lower() for sys_dll in [...])
WinIsSystem(line) == \E d \in WinSystemDlls : Contains(Lower(line), <<d>>)

\* the parse loop; in_deps_section is the loop's flag
RECURSIVE ParseWindows(_, _)
ParseWindows(lines, in_deps_section) ==
    IF lines = <<>> THEN <<>>
    ELSE LET line == Strip(Head(lines)) IN
         IF Contains(line, <<DependenciesMarker>>)
         THEN ParseWindows(Tail(lines), TRUE)
         ELSE IF /\ in_deps_section
                 /\ line # <<>>
                 /\ ~StartsWith(line, <<"Summary">>)
                 /\ EndsWith(line, <<".dll">>)
         THEN LET is_system == WinIsSystem(line)
              IN <<Dependency(line, NoPath, is_system)>>
                     \o ParseWindows(Tail(lines), in_deps_section)
         ELSE ParseWindows(Tail(lines), in_deps_section)

WinEvaluate(s, deps) ==
    LET non_system_deps == NonSystemDeps(deps) IN
    IF deps = <<>>
    THEN VerificationResult(SUCCESS, "Windows", <<>>,
                            <<"Fully static binary (no DLL dependencies)">>,
                            <<<<"Binary is completely static">>>>)
    ELSE IF non_system_deps = <<>>
    THEN VerificationResult(SUCCESS, "Windows", deps,
                            <<"Static binary (only system DLLs)">>,
                            << <<"System dependencies: ", Str(Len(deps))>>,
                               <<"All dependencies are Windows system DLLs">> >>)
    ELSE VerificationResult(ERROR, "Windows", deps,
                            <<"Dynamic binary with ", Str(Len(non_system_deps)),
                              " third-party dependencies">>,
                            << <<"Total dependencies: ", Str(Len(deps))>>,
                               <<"Non-system dependencies: ", Str(Len(non_system_deps))>> >>)

verify_windows(s, t) ==
    IF t.kind = "notfound"
    THEN VerificationResult(ERROR, "Windows", <<>>, <<"dumpbin command ", "not found">>,
                            <<<<"Install Visual Studio or Windows SDK">>>>)
    ELSE IF t.kind = "timeout"
    THEN VerificationResult(ERROR, "Windows", <<>>, <<"Error running dumpbin: ", TimeoutText>>, <<>>)
    ELSE IF t.returncode # 0
    THEN VerificationResult(ERROR, "Windows", <<>>,
                            <<"Could not analyze binary (dumpbin ", "not found", ")">>,
                            <<<<"Install Visual Studio or use Windows SDK">>>>)
    ELSE WinEvaluate(s, ParseWindows(t.stdout, FALSE))

(* ------------------------------- verify -------------------------------- *)
Platforms == {"Linux", "Darwin", "Windows", "FreeBSD"}
\* "inaccessible": the path lies in a directory the process may not search, so
\* stat() fails with EACCES
BinaryStates == {"missing", "directory", "file", "inaccessible"}

\* self.binary.exists(), when it returns
Exists(b) == b \notin {"missing", "inaccessible"}

\* self.binary.exists() re-raises an OSError that is not a "no such file"
\* kind; whether EACCES is one of those depends on the Python version
ExistsMayRaise(b) == b = "inaccessible"

\* the exit status of the interpreter after an uncaught exception
CrashExitCode == 1

\* mutant: the regular-file check is missing
IsFileUnchecked(b) == TRUE

\* self.binary.is_file()
IsFile(b) == b = "file"

\* mutant: ldd is run on every platform
CommandLddEverywhere(plat) == <<"ldd", BinaryPath>>

\* the command line handed to subprocess.run
Command(plat) ==
    CASE plat = "Linux" -> <<"ldd", BinaryPath>>
      [] plat = "Darwin" -> <<"otool", "-L", BinaryPath>>
      [] plat = "Windows" -> <<"dumpbin", "/dependents", BinaryPath>>

\* mutant: the platform name is not interpolated
UnsupportedMessageBare(plat) == <<"Unsupported platform">>

\* f"Unsupported platform: {self.platform}"
UnsupportedMessage(plat) == <<"Unsupported platform: ", plat>>

\* StaticLinkingVerifier.verify; t is what subprocess.run does if it is called
verify(plat, b, s, t) ==
    IF ~Exists(b)
    THEN VerificationResult(ERROR, plat, <<>>, <<"Binary ", "not found", ": ", BinaryPath>>, <<>>)
    ELSE IF ~IsFile(b)
    THEN VerificationResult(ERROR, plat, <<>>, <<"Not a file: ", BinaryPath>>, <<>>)
    ELSE IF plat = "Linux" THEN verify_linux(s, t)
    ELSE IF plat = "Darwin" THEN verify_macos(s, t)
    ELSE IF plat = "Windows" THEN verify_windows(s, t)
    ELSE VerificationResult(ERROR, plat, <<>>, UnsupportedMessage(plat), <<>>)

(* ---------------------------- print_result ----------------------------- *)
\* mutant: the path is printed whatever verbose is
DepLineAlwaysPath(dep, v) ==
    IF dep.path.some /\ dep.path.val # <<>>
    THEN dep.name \o <<" (">> \o dep.path.val \o <<")">>
    ELSE dep.name

\* one printed dependency bullet
DepLine(dep, v) ==
    IF v /\ dep.path.some /\ dep.path.val # <<>>
    THEN dep.name \o <<" (">> \o dep.path.val \o <<")">>
    ELSE dep.name

DepLines(deps, v) == [i \in 1..Len(deps) |-> DepLine(deps[i], v)]

NoOutput == [status_line |-> <<>>, details |-> <<>>, total |-> 0, system |-> <<>>, third |-> <<>>]

\* what print_result writes to standard output
Render(r, v) ==
    [status_line |-> <<r.status, SP>> \o r.message,
     details |-> r.details,
     total |-> Len(r.dependencies),
     system |-> DepLines(SystemDeps(r.dependencies), v),
     third |-> DepLines(NonSystemDeps(r.dependencies), v)]

\* mutant: a warning fails the process
ExitCodeWarningFails(status) ==
    IF status = SUCCESS THEN 0
    ELSE 1

\* the value print_result returns
ExitCode(status) ==
    IF status = SUCCESS THEN 0
    ELSE IF status = WARNING THEN 0
    ELSE 1

NoExit == -1

(* --------------------------- the state machine ------------------------- *)
\* no build wrapper is running
BuildIdle ==
    /\ bpc = "off"
    /\ binaries = <<>>
    /\ scriptExists = TRUE
    /\ nextBinary = 0
    /\ all_passed = TRUE
    /\ runs = <<>>
    /\ sweepResult = FALSE

\* build-static's main is not run
MainIdle ==
    /\ mpc = "off"
    /\ cleanFlag = FALSE
    /\ verifyFlag = FALSE
    /\ started = <<>>
    /\ finished = <<>>
    /\ banner = FALSE
    /\ mainExit = NoExit

\* update_tasks.py is not run
TasksIdle ==
    /\ tpc = "off"
    /\ original = <<>>
    /\ fileLines = <<>>
    /\ newStatus = "pending"
    /\ task_ids = <<>>
    /\ nextTask = 0
    /\ updated = <<>>
    /\ not_found = <<>>
    /\ written = <<>>
    /\ taskExit = NoExit

Init ==
    /\ pc = "start"
    /\ platform \in Platforms
    /\ binaryState \in BinaryStates
    /\ strict \in BOOLEAN
    /\ verbose \in BOOLEAN
    /\ tool = NoTool
    /\ invoked = <<>>
    /\ result = NoResult
    /\ printed = NoOutput
    /\ exitCode = NoExit
    /\ BuildIdle
    /\ MainIdle
    /\ TasksIdle

\* verify() returns before the platform dispatch
VerifyInputError ==
    /\ pc = "start"
    /\ ~Exists(binaryState) \/ ~IsFile(binaryState)
    /\ result' = verify(platform, binaryState, strict, NoTool)
    /\ pc' = "verified"
    /\ UNCHANGED <<platform, binaryState, strict, verbose, tool, invoked, printed, exitCode, bvars, mvars, tvars>>

\* verify(): exists() raises; the exception leaves verify() and main(), the
\* interpreter prints the traceback and exits
VerifyRaises ==
    /\ pc = "start"
    /\ ExistsMayRaise(binaryState)
    /\ pc' = "crashed"
    /\ exitCode' = CrashExitCode
    /\ UNCHANGED <<platform, binaryState, strict, verbose, tool, invoked, result, printed, bvars, mvars, tvars>>

\* verify() -> _verify_linux()
VerifyLinux ==
    /\ pc = "start"
    /\ Exists(binaryState) /\ IsFile(binaryState)
    /\ platform = "Linux"
    /\ \E t \in LinuxTools :
          /\ tool' = t
          /\ result' = verify(platform, binaryState, strict, t)
    /\ invoked' = Append(invoked, Command(platform))
    /\ pc' = "verified"
    /\ UNCHANGED <<platform, binaryState, strict, verbose, printed, exitCode, bvars, mvars, tvars>>

\* verify() -> _verify_macos()
VerifyMacos ==
    /\ pc = "start"
    /\ Exists(binaryState) /\ IsFile(binaryState)
    /\ platform = "Darwin"
    /\ \E t \in MacTools :
          /\ tool' = t
          /\ result' = verify(platform, binaryState, strict, t)
    /\ invoked' = Append(invoked, Command(platform))
    /\ pc' = "verified"
    /\ UNCHANGED <<platform, binaryState, strict, verbose, printed, exitCode, bvars, mvars, tvars>>

\* verify() -> _verify_windows()
VerifyWindows ==
    /\ pc = "start"
    /\ Exists(binaryState) /\ IsFile(binaryState)
    /\ platform = "Windows"
    /\ \E t \in WinTools :
          /\ tool' = t
          /\ result' = verify(platform, binaryState, strict, t)
    /\ invoked' = Append(invoked, Command(platform))
    /\ pc' = "verified"
    /\ UNCHANGED <<platform, binaryState, strict, verbose, printed, exitCode, bvars, mvars, tvars>>

\* verify() on a platform that is none of the three
VerifyUnsupported ==
    /\ pc = "start"
    /\ Exists(binaryState) /\ IsFile(binaryState)
    /\ platform \notin {"Linux", "Darwin", "Windows"}
    /\ result' = verify(platform, binaryState, strict, NoTool)
    /\ pc' = "verified"
    /\ UNCHANGED <<platform, binaryState, strict, verbose, tool, invoked, printed, exitCode, bvars, mvars, tvars>>

\* main: exit_code = print_result(result, verbose); sys.exit(exit_code)
PrintResult ==
    /\ pc = "verified"
    /\ printed' = Render(result, verbose)
    /\ exitCode' = ExitCode(result.status)
    /\ pc' = "exited"
    /\ UNCHANGED <<platform, binaryState, strict, verbose, tool, invoked, result, bvars, mvars, tvars>>

Next ==
    \/ VerifyInputError
    \/ VerifyRaises
    \/ VerifyLinux
    \/ VerifyMacos
    \/ VerifyWindows
    \/ VerifyUnsupported
    \/ PrintResult

Spec == Init /\ [][Next]_vars

\* verify() has returned a result
Verified == pc \in {"verified", "exited"}

TypeOK ==
    /\ pc \in {"start", "verified", "exited", "crashed"}
    /\ Verified => result.status \in Status
    /\ exitCode \in {NoExit, 0, 1}

(* ------------------- build-static.py: verify_binaries ------------------ *)
\* how one run of the verifier script on one binary ends: with a verdict, with
\* an uncaught exception in the script, or subprocess.run itself raises
VerifierOutcomes == Status \cup {"crashed", "cannot_run"}

\* result.returncode of the verifier subprocess
VerifierReturnCode(o) == IF o \in Status THEN ExitCode(o) ELSE 1

\* the run makes the loop body set all_passed = False
RunFailed(o) == o = "cannot_run" \/ VerifierReturnCode(o) # 0

\* mutant: the last binary alone decides
PassedAfterLastWins(ap, o) == ~RunFailed(o)

\* all_passed after the loop body ran for one binary
PassedAfter(ap, o) == IF RunFailed(o) THEN FALSE ELSE ap

\* no verifier run is modelled
VerifierIdle ==
    /\ pc = "off"
    /\ platform = "Linux"
    /\ binaryState = "file"
    /\ strict = FALSE
    /\ verbose = FALSE
    /\ tool = NoTool
    /\ invoked = <<>>
    /\ result = NoResult
    /\ printed = NoOutput
    /\ exitCode = NoExit

\* verify_binaries is called: find_binaries() has found `binaries`
InitBuild ==
    /\ VerifierIdle
    /\ MainIdle
    /\ TasksIdle
    /\ bpc = "call"
    /\ binaries \in SeqsUpTo(VerifierOutcomes, MaxBinaries)
    /\ scriptExists \in BOOLEAN
    /\ nextBinary = 0
    /\ all_passed = TRUE
    /\ runs = <<>>
    /\ sweepResult = FALSE

\* if not binaries: return False
SweepNoBinaries ==
    /\ bpc = "call"
    /\ binaries = <<>>
    /\ sweepResult' = FALSE
    /\ bpc' = "returned"
    /\ UNCHANGED <<binaries, scriptExists, nextBinary, all_passed, runs, vvars, mvars, tvars>>

\* if not verifier_script.exists(): return False
SweepNoVerifier ==
    /\ bpc = "call"
    /\ binaries # <<>>
    /\ ~scriptExists
    /\ sweepResult' = FALSE
    /\ bpc' = "returned"
    /\ UNCHANGED <<binaries, scriptExists, nextBinary, all_passed, runs, vvars, mvars, tvars>>

\* all_passed = True; the loop starts
SweepBegin ==
    /\ bpc = "call"
    /\ binaries # <<>>
    /\ scriptExists
    /\ all_passed' = TRUE
    /\ nextBinary' = 1
    /\ bpc' = "loop"
    /\ UNCHANGED <<binaries, scriptExists, runs, sweepResult, vvars, mvars, tvars>>

\* one iteration of `for binary in binaries`
SweepVerifyOne ==
    /\ bpc = "loop"
    /\ nextBinary <= Len(binaries)
    /\ runs' = Append(runs, nextBinary)
    /\ all_passed' = PassedAfter(all_passed, binaries[nextBinary])
    /\ nextBinary' = nextBinary + 1
    /\ UNCHANGED <<bpc, binaries, scriptExists, sweepResult, vvars, mvars, tvars>>

\* return all_passed
SweepReturn ==
    /\ bpc = "loop"
    /\ nextBinary > Len(binaries)
    /\ sweepResult' = all_passed
    /\ bpc' = "returned"
    /\ UNCHANGED <<binaries, scriptExists, nextBinary, all_passed, runs, vvars, mvars, tvars>>

NextBuild ==
    \/ SweepNoBinaries
    \/ SweepNoVerifier
    \/ SweepBegin
    \/ SweepVerifyOne
    \/ SweepReturn

SpecBuild == InitBuild /\ [][NextBuild]_vars

(* ------------------------ build-static.py: main ------------------------ *)
\* how a step of main ends: it returns True, it returns False, or an exception
\* escapes it (clean() has no handler around shutil.rmtree, build() catches
\* CalledProcessError only, configure() that and FileNotFoundError only)
StepOutcomes == {"ok", "failed", "raised"}

\* clean() returns nothing: it ends normally or rmtree raises
CleanOutcomes == {"ok", "raised"}

\* mutant: main goes on after a step returned False
AfterStepIgnoresFailure(outcome, nextStep) ==
    IF outcome = "raised" THEN "exited" ELSE nextStep

\* `if not builder.<step>(): ...; sys.exit(1)`: where main is after the step
AfterStep(outcome, nextStep) == IF outcome = "ok" THEN nextStep ELSE "exited"

\* the process exit status once main has stopped at a step: sys.exit(1), or
\* the interpreter's status for an uncaught exception
ExitAfter(position, code) == IF position = "exited" THEN CrashExitCode ELSE code

\* main is entered with parsed arguments; find_binaries() will find `binaries`
\* once the build is done
InitMain ==
    /\ VerifierIdle
    /\ TasksIdle
    /\ bpc = "off"
    /\ binaries \in SeqsUpTo(VerifierOutcomes, MaxBinaries)
    /\ scriptExists \in BOOLEAN
    /\ nextBinary = 0
    /\ all_passed = TRUE
    /\ runs = <<>>
    /\ sweepResult = FALSE
    /\ mpc = "start"
    /\ cleanFlag \in BOOLEAN
    /\ verifyFlag \in BOOLEAN
    /\ started = <<>>
    /\ finished = <<>>
    /\ banner = FALSE
    /\ mainExit = NoExit

\* the source directory or its CMakeLists.txt is missing: sys.exit(1)
MainNoSource ==
    /\ mpc = "start"
    /\ mpc' = "exited"
    /\ mainExit' = 1
    /\ UNCHANGED <<cleanFlag, verifyFlag, started, finished, banner, vvars, bvars, tvars>>

\* both exist: the builder is created and the header is printed
MainBegin ==
    /\ mpc = "start"
    /\ mpc' = "clean"
    /\ UNCHANGED <<cleanFlag, verifyFlag, started, finished, banner, mainExit, vvars, bvars, tvars>>

\* if args.clean: builder.clean()
MainClean ==
    /\ mpc = "clean"
    /\ cleanFlag
    /\ \E o \in CleanOutcomes :
          /\ started' = Append(started, "clean")
          /\ finished' = Append(finished, o)
          /\ mpc' = AfterStep(o, "configure")
          /\ mainExit' = ExitAfter(mpc', mainExit)
    /\ UNCHANGED <<cleanFlag, verifyFlag, banner, vvars, bvars, tvars>>

\* --clean was not given
MainSkipClean ==
    /\ mpc = "clean"
    /\ ~cleanFlag
    /\ mpc' = "configure"
    /\ UNCHANGED <<cleanFlag, verifyFlag, started, finished, banner, mainExit, vvars, bvars, tvars>>

\* if not builder.configure(): print("Configuration failed"); sys.exit(1)
MainConfigure ==
    /\ mpc = "configure"
    /\ \E o \in StepOutcomes :
          /\ started' = Append(started, "configure")
          /\ finished' = Append(finished, o)
          /\ mpc' = AfterStep(o, "build")
          /\ mainExit' = ExitAfter(mpc', mainExit)
    /\ UNCHANGED <<cleanFlag, verifyFlag, banner, vvars, bvars, tvars>>

\* if not builder.build(...): print("Build failed"); sys.exit(1)
MainBuild ==
    /\ mpc = "build"
    /\ \E o \in StepOutcomes :
          /\ started' = Append(started, "build")
          /\ finished' = Append(finished, o)
          /\ mpc' = AfterStep(o, "verify")
          /\ mainExit' = ExitAfter(mpc', mainExit)
    /\ UNCHANGED <<cleanFlag, verifyFlag, banner, vvars, bvars, tvars>>

\* if args.verify: builder.verify_binaries() is called
MainVerifyCall ==
    /\ mpc = "verify"
    /\ verifyFlag
    /\ started' = Append(started, "verify")
    /\ mpc' = "verifying"
    /\ bpc' = "call"
    /\ UNCHANGED <<cleanFlag, verifyFlag, finished, banner, mainExit, vvars, tvars,
                   binaries, scriptExists, nextBinary, all_passed, runs, sweepResult>>

\* verify_binaries() has returned: False exits with 1, True prints the
\* "All binaries verified" line
MainVerifyReturn ==
    /\ mpc = "verifying"
    /\ bpc = "returned"
    /\ finished' = Append(finished, IF sweepResult THEN "ok" ELSE "failed")
    /\ mpc' = AfterStep(finished'[Len(finished')], "banner")
    /\ mainExit' = ExitAfter(mpc', mainExit)
    /\ UNCHANGED <<cleanFlag, verifyFlag, started, banner, vvars, bvars, tvars>>

\* --verify was not given
MainSkipVerify ==
    /\ mpc = "verify"
    /\ ~verifyFlag
    /\ mpc' = "banner"
    /\ UNCHANGED <<cleanFlag, verifyFlag, started, finished, banner, mainExit, vvars, bvars, tvars>>

\* print("Build completed successfully"); main returns, exit status 0
MainBanner ==
    /\ mpc = "banner"
    /\ banner' = TRUE
    /\ mainExit' = 0
    /\ mpc' = "done"
    /\ UNCHANGED <<cleanFlag, verifyFlag, started, finished, vvars, bvars, tvars>>

NextMain ==
    \/ MainNoSource
    \/ MainBegin
    \/ MainClean
    \/ MainSkipClean
    \/ MainConfigure
    \/ MainBuild
    \/ MainVerifyCall
    \/ SweepNoBinaries
    \/ SweepNoVerifier
    \/ SweepBegin
    \/ SweepVerifyOne
    \/ SweepReturn
    \/ MainVerifyReturn
    \/ MainSkipVerify
    \/ MainBanner

SpecMain == InitMain /\ [][NextMain]_vars

(* ----------------- update_tasks.py: update_task_status ---------------- *)
\* A line of requirements.yaml is its leading whitespace, an optional "- "
\* list marker, a key and the text after the colon.
Line(indent, dash, key, value) ==
    [indent |-> indent, dash |-> dash, key |-> key, value |-> value]

TaskLine(id) == Line(2, TRUE, "task_id", id)
StatusLine(v) == Line(4, FALSE, "status", v)
TitleLine == Line(4, FALSE, "title", "x")
TopKeyLine == Line(0, FALSE, "metadata", "")

\* values that are one or more word characters (\w+)
Words == {"pending", "completed", "in_progress", "cancel", "done", "x", "T1", "T2", "T3"}

\* valid_statuses
ValidStatuses == {"pending", "completed", "in_progress", "cancel"}

\* ^\s*-?\s*task_id:\s*<id>\s*$
TaskIdRe(l, id) == l.key = "task_id" /\ l.value = id

\* ^\s*-?\s*task_id:
AnyTaskIdRe(l) == l.key = "task_id"

\* ^\w+:
TopLevelKeyRe(l) == l.indent = 0 /\ ~l.dash

\* ^\s+status:\s*\w+\s*$
StatusRe(l) == l.indent > 0 /\ ~l.dash /\ l.key = "status" /\ l.value \in Words

\* range(i + 1, min(i + 11, len(lines))) looks at this many lines after the
\* task_id line
StatusWindow == 10

\* the first line that names the task, 0 when no line does
FindTask(ls, id) ==
    IF \E i \in 1..Len(ls) : TaskIdRe(ls[i], id)
    THEN CHOOSE i \in 1..Len(ls) :
            /\ TaskIdRe(ls[i], id)
            /\ \A h \in 1..(i - 1) : ~TaskIdRe(ls[h], id)
    ELSE 0

RECURSIVE ScanStatus(_, _, _)
\* the inner loop from line j to line last: it stops at the next task or
\* top-level key and at the first status line; 0 when it finds none
ScanStatus(ls, j, last) ==
    IF j > last THEN 0
    ELSE IF AnyTaskIdRe(ls[j]) \/ TopLevelKeyRe(ls[j]) THEN 0
    ELSE IF StatusRe(ls[j]) THEN j
    ELSE ScanStatus(ls, j + 1, last)

Min(a, b) == IF a <= b THEN a ELSE b

\* the status line the loop rewrites for the task named on line i
FindStatus(ls, i) == ScanStatus(ls, i + 1, Min(i + StatusWindow, Len(ls)))

\* lines[j] = f"{indent}status: {status}\n"
Rewrite(l, s) == Line(l.indent, FALSE, "status", s)

\* the file contents the inputs are drawn from: task blocks one after another
MaxBlocks == 2
MaxIds == 2
FileIds == {"T1", "T2"}
RequestIds == {"T1", "T2", "T3"}
StatusInputs == {"completed", "cancel", "done"}

Titles(n) == [i \in 1..n |-> TitleLine]

BlockTails ==
    { <<>>,
      <<StatusLine("pending")>>,
      <<StatusLine("in-progress")>>,
      Titles(StatusWindow - 1) \o <<StatusLine("pending")>>,
      Titles(StatusWindow) \o <<StatusLine("pending")>>,
      <<TopKeyLine, StatusLine("pending")>> }

Blocks == { <<TaskLine(id)>> \o t : id \in FileIds, t \in BlockTails }

RECURSIVE Concat(_)
Concat(bs) == IF bs = <<>> THEN <<>> ELSE Head(bs) \o Concat(Tail(bs))

Files == { Concat(bs) : bs \in SeqsUpTo(Blocks, MaxBlocks) }

InitTasks ==
    /\ VerifierIdle
    /\ BuildIdle
    /\ MainIdle
    /\ tpc = "start"
    /\ original \in Files
    /\ written = original
    /\ fileLines = <<>>
    /\ newStatus \in StatusInputs
    /\ task_ids \in SeqsUpTo(RequestIds, MaxIds)
    /\ nextTask = 0
    /\ updated = <<>>
    /\ not_found = <<>>
    /\ taskExit = NoExit

\* if status not in valid_statuses: sys.exit(1)
TaskInvalidStatus ==
    /\ tpc = "start"
    /\ newStatus \notin ValidStatuses
    /\ tpc' = "exited"
    /\ taskExit' = 1
    /\ UNCHANGED <<original, fileLines, newStatus, task_ids, nextTask, updated,
                   not_found, written, vvars, bvars, mvars>>

\* open(yaml_file, 'r') raises: the file cannot be read
TaskOpenRaises ==
    /\ tpc = "start"
    /\ newStatus \in ValidStatuses
    /\ tpc' = "crashed"
    /\ taskExit' = CrashExitCode
    /\ UNCHANGED <<original, fileLines, newStatus, task_ids, nextTask, updated,
                   not_found, written, vvars, bvars, mvars>>

\* lines = f.readlines()
TaskRead ==
    /\ tpc = "start"
    /\ newStatus \in ValidStatuses
    /\ fileLines' = written
    /\ nextTask' = 1
    /\ tpc' = "loop"
    /\ UNCHANGED <<original, newStatus, task_ids, updated, not_found, written,
                   taskExit, vvars, bvars, mvars>>

\* one iteration of `for task_id in task_ids`
TaskUpdateOne ==
    /\ tpc = "loop"
    /\ nextTask <= Len(task_ids)
    /\ LET id == task_ids[nextTask]
           i == FindTask(fileLines, id)
           j == IF i = 0 THEN 0 ELSE FindStatus(fileLines, i)
       IN  /\ fileLines' = IF j = 0 THEN fileLines
                           ELSE [fileLines EXCEPT ![j] = Rewrite(@, newStatus)]
           /\ updated' = IF j = 0 THEN updated ELSE Append(updated, id)
           /\ not_found' = IF i = 0 THEN Append(not_found, id) ELSE not_found
    /\ nextTask' = nextTask + 1
    /\ UNCHANGED <<tpc, original, newStatus, task_ids, written, taskExit,
                   vvars, bvars, mvars>>

\* after the loop: the file is written when something was updated, and
\* sys.exit(1) when some task was not found
TaskFinish ==
    /\ tpc = "loop"
    /\ nextTask > Len(task_ids)
    /\ written' = IF updated # <<>> THEN fileLines ELSE written
    /\ taskExit' = IF not_found # <<>> THEN 1 ELSE 0
    /\ tpc' = "done"
    /\ UNCHANGED <<original, fileLines, newStatus, task_ids, nextTask, updated,
                   not_found, vvars, bvars, mvars>>

NextTasks ==
    \/ TaskInvalidStatus
    \/ TaskOpenRaises
    \/ TaskRead
    \/ TaskUpdateOne
    \/ TaskFinish

SpecTasks == InitTasks /\ [][NextTasks]_vars

(* ------------------------------ properties ----------------------------- *)
Supported == platform \in {"Linux", "Darwin", "Windows"}
Deps == result.dependencies
AllSystem(deps) == NonSystemDeps(deps) = <<>>
IsOptimal(r) == r.message # <<>> /\ r.message[1] = "Optimal"
IsMany(r) == r.message # <<>> /\ r.message[1] = "Many system dependencies ("
SoleLibSystem(deps) ==
    Len(deps) = 1 /\ deps[1].is_system /\ deps[1].path = SomePath(LibSystemPath)

\* C1: on every platform and for both strict values, a dependency list with
\* at least one non-system entry gives status ERROR, and the number in the
\* message "Dynamic binary with N ..." is the number of non-system entries.
C1_NonSystemIsError ==
    (Verified /\ ~AllSystem(Deps)) =>
        /\ result.status = ERROR
        /\ Len(result.message) >= 2
        /\ result.message[1] = "Dynamic binary with "
        /\ result.message[2] = Str(Len(NonSystemDeps(Deps)))

\* C2: on Linux and Windows a non-empty, entirely system-classified list gives
\* SUCCESS without strict and WARNING with strict.
C2_SystemOnlyFollowsStrict ==
    (Verified /\ platform \in {"Linux", "Windows"} /\ Deps # <<>> /\ AllSystem(Deps)) =>
        result.status = IF strict THEN WARNING ELSE SUCCESS

\* the tool ran, exited 0, and parsing its output yields no dependency
ParsedNothing ==
    /\ IsFile(binaryState)
    /\ tool.kind = "ran" /\ tool.returncode = 0
    /\ CASE platform = "Linux" -> ParseLinux(tool.stdout \o tool.stderr) = <<>>
         [] platform = "Darwin" -> Len(StripLines(tool.stdout)) <= 1
         [] platform = "Windows" -> ParseWindows(tool.stdout, FALSE) = <<>>
         [] OTHER -> FALSE

\* C3: on every supported platform and for both strict values, a successful
\* tool run whose output parses to zero dependencies gives SUCCESS with an
\* empty dependencies list.
C3_ZeroDepsIsSuccess ==
    (Verified /\ ParsedNothing) => (result.status = SUCCESS /\ Deps = <<>>)

C3_Witness ==
    /\ Verified /\ ParsedNothing
    /\ platform = "Linux" /\ strict
    /\ tool.stdout = <<LdLinuxLine>> /\ tool.stderr = <<>>
    /\ result.status = SUCCESS

\* C4: the exit code is determined by the status alone: SUCCESS 0, WARNING 0,
\* ERROR 1, and there is no other exit code.
C4_ExitCodeFromStatus ==
    (pc = "exited") =>
        /\ exitCode \in {0, 1}
        /\ (result.status = SUCCESS => exitCode = 0)
        /\ (result.status = WARNING => exitCode = 0)
        /\ (result.status = ERROR => exitCode = 1)

C4_Witness ==
    /\ pc = "exited" /\ result.status = WARNING /\ exitCode = 0
    /\ verbose /\ Deps # <<>>

\* C5: a missing path, or a path that is not a regular file, gives an ERROR
\* result with no dependencies (message containing "not found" when the path
\* is missing) and no inspection tool is invoked, whatever the platform.
C5_InputErrorBeforeTool ==
    (Verified /\ binaryState # "file") =>
        /\ result.status = ERROR
        /\ Deps = <<>>
        /\ invoked = <<>>
        /\ tool = NoTool
        /\ (binaryState = "missing" => Contains(result.message, <<"not found">>))

C5_Witness ==
    /\ Verified /\ binaryState = "directory" /\ platform = "Linux"
    /\ result.status = ERROR /\ invoked = <<>>

\* the tool was not found, timed out, or exited non-zero without a recognised
\* output (on Linux: without the "not a dynamic" marker)
ToolFailed ==
    \/ tool.kind \in {"notfound", "timeout"}
    \/ /\ tool.kind = "ran" /\ tool.returncode # 0
       /\ platform = "Linux" => ~LinuxIsStatic(tool.stdout \o tool.stderr)

\* C6: on every supported platform a failed tool run gives ERROR with an empty
\* dependencies list, never SUCCESS or WARNING.
C6_ToolFailureIsError ==
    (Verified /\ Supported /\ ToolFailed) => (result.status = ERROR /\ Deps = <<>>)

\* the verdict of the same run under the other strict value
OtherStrict == verify(platform, binaryState, ~strict, tool)
LaxVerdict == IF strict THEN OtherStrict ELSE result
StrictVerdict == IF strict THEN result ELSE OtherStrict

C8_OptimalExactlyLibSystem ==
    (Verified /\ platform = "Darwin") => (IsOptimal(result) <=> SoleLibSystem(Deps))

\* C9: on macOS an entirely system-classified list of 1 to 3 entries that is
\* not the sole-libSystem case gives SUCCESS without strict, WARNING with it.
C9_MacFewFollowsStrict ==
    (/\ Verified /\ platform = "Darwin"
     /\ Deps # <<>> /\ AllSystem(Deps) /\ Len(Deps) <= 3
     /\ ~SoleLibSystem(Deps)) =>
        result.status = IF strict THEN WARNING ELSE SUCCESS

\* C10: on macOS an entirely system-classified list of more than 3 entries
\* gives WARNING for both strict values, and the "many system dependencies"
\* rule applies from 4 entries on, not at 3.
C10_MacManyIsWarning ==
    (Verified /\ platform = "Darwin" /\ Deps # <<>> /\ AllSystem(Deps)) =>
        /\ (Len(Deps) > 3) => (result.status = WARNING /\ IsMany(result))
        /\ (Len(Deps) <= 3) => (result.status # WARNING /\ ~IsMany(result))

C10_Witness ==
    /\ Verified /\ platform = "Darwin" /\ ~strict
    /\ Len(Deps) = 4 /\ AllSystem(Deps)
    /\ result.status = WARNING


\* the combined ldd output carries the "not a dynamic" marker
LddSaysNotDynamic ==
    /\ IsFile(binaryState) /\ platform = "Linux" /\ tool.kind = "ran"
    /\ \E i \in 1..Len(tool.stdout \o tool.stderr) :
           Contains((tool.stdout \o tool.stderr)[i], <<"not a dynamic">>)

\* C11: on Linux, whenever the combined output contains "not a dynamic
\* executable" or "not a dynamic", the result is SUCCESS with no dependencies
\* for both strict values, whatever the exit code and the other lines are.
C11_NotDynamicShortCircuit ==
    (Verified /\ LddSaysNotDynamic) => (result.status = SUCCESS /\ Deps = <<>>)

C11_Witness ==
    /\ Verified /\ LddSaysNotDynamic /\ strict
    /\ tool.returncode = 1
    /\ tool.stdout = <<FooLine>> /\ tool.stderr = <<NotDynamicLine>>
    /\ result.status = SUCCESS /\ Deps = <<>>


\* C12: on a platform that is none of Linux, Darwin, Windows, an existing
\* regular file gives an ERROR result whose message names the detected
\* platform, with no dependencies and without any tool being invoked.
C12_UnsupportedPlatformIsError ==
    (Verified /\ IsFile(binaryState) /\ ~Supported) =>
        /\ result.status = ERROR
        /\ Contains(result.message, <<platform>>)
        /\ Deps = <<>>
        /\ invoked = <<>>
        /\ tool = NoTool

C12_Witness ==
    /\ Verified /\ IsFile(binaryState) /\ platform = "FreeBSD"
    /\ result.status = ERROR /\ invoked = <<>>


\* the rule table of the classifier, applied to one Dependency
RuleSaysSystem(plat, d) ==
    CASE plat = "Linux" ->
             /\ d.path.some
             /\ \E m \in {<<"/lib/">>, <<"/usr", "/lib/">>, <<"linux-vdso">>, <<"ld-linux">>} :
                    Contains(d.path.val, m)
      [] plat = "Darwin" ->
             /\ d.path.some
             /\ \E m \in {<<"/usr", "/lib/">>, <<"/System/Library/">>} : StartsWith(d.path.val, m)
      [] plat = "Windows" ->
             \E m \in {"kernel32", "ntdll", "msvcrt", "ucrtbase"} : Contains(Lower(d.name), <<m>>)
      [] OTHER -> FALSE

\* C13: every dependency of a result is classified by the per-platform rule
\* table: is_system holds exactly when the rule matches, and is false in
\* every other case, an absent path included.
C13_ClassificationFollowsRules ==
    Verified => \A i \in 1..Len(Deps) : Deps[i].is_system <=> RuleSaysSystem(platform, Deps[i])

C13_Witness ==
    /\ Verified /\ platform = "Windows" /\ Len(Deps) = 2
    /\ Deps[1].name = <<"KERNEL32", ".dll">> /\ Deps[1].is_system
    /\ Deps[2].name = <<"mylib", ".dll">> /\ ~Deps[2].is_system


\* the printed bullet shows dependency d: its name alone, or its name and its
\* path, the latter only under verbose and with a path present
BulletShows(line, d) ==
    \/ line = d.name
    \/ /\ verbose /\ d.path.some
       /\ line = d.name \o <<" (">> \o d.path.val \o <<")">>

\* C14: print_result puts every dependency in exactly one of the two buckets
\* (system iff is_system), the two bucket counts sum to the displayed total,
\* and a path is printed only when verbose is set and the path is present.
C14_BucketsPartitionDependencies ==
    (pc = "exited") =>
        /\ printed.total = Len(Deps)
        /\ Len(printed.system) + Len(printed.third) = printed.total
        /\ Len(printed.system) = Cardinality({i \in 1..Len(Deps) : Deps[i].is_system})
        /\ Len(printed.third) = Cardinality({i \in 1..Len(Deps) : ~Deps[i].is_system})
        /\ \A k \in 1..Len(printed.system) :
               \E i \in 1..Len(Deps) : Deps[i].is_system /\ BulletShows(printed.system[k], Deps[i])
        /\ \A k \in 1..Len(printed.third) :
               \E i \in 1..Len(Deps) : ~Deps[i].is_system /\ BulletShows(printed.third[k], Deps[i])

C14_Witness ==
    /\ pc = "exited" /\ ~verbose /\ platform = "Linux"
    /\ Len(printed.system) = 1 /\ Len(printed.third) = 2
    /\ printed.system[1] = <<"libc.so.6">>


SweepDone == bpc = "returned"
SomeRunFailed ==
    \E i \in 1..Len(binaries) :
        binaries[i] = "cannot_run" \/ binaries[i] = "crashed" \/ binaries[i] = ERROR
EveryBinaryRun == runs = [i \in 1..Len(binaries) |-> i]

\* C15 as stated: for a non-empty set of discovered binaries verify_binaries
\* returns False iff at least one verification ended in ERROR (non-zero exit
\* or the verifier could not be run), and every binary is verified.
C15_SweepFailsIffSomeError ==
    (SweepDone /\ binaries # <<>>) =>
        /\ (sweepResult = FALSE) <=> SomeRunFailed
        /\ EveryBinaryRun

\* C15 amended: the same, provided the verifier script exists beside the
\* wrapper; without it the sweep returns False and verifies no binary.
C15_SweepFailsIffSomeErrorGivenScript ==
    (SweepDone /\ binaries # <<>>) =>
        /\ scriptExists => (((sweepResult = FALSE) <=> SomeRunFailed) /\ EveryBinaryRun)
        /\ ~scriptExists => (sweepResult = FALSE /\ runs = <<>>)

C15_Witness ==
    /\ SweepDone /\ scriptExists
    /\ binaries = <<ERROR, WARNING, SUCCESS>>
    /\ sweepResult = FALSE
    /\ runs = <<1, 2, 3>>


\* dumpbin ran and its output was parsed
DumpbinParsed ==
    /\ Verified /\ IsFile(binaryState) /\ platform = "Windows"
    /\ tool.kind = "ran" /\ tool.returncode = 0

\* line i lies after the first marker line and before the first Summary line
\* that follows it
InDependencySection(lines, i) ==
    \E m \in 1..(i - 1) :
        /\ Contains(Strip(lines[m]), <<"Image has the following dependencies:">>)
        /\ \A k \in 1..(m - 1) :
               ~Contains(Strip(lines[k]), <<"Image has the following dependencies:">>)
        /\ \A j \in (m + 1)..i : ~StartsWith(Strip(lines[j]), <<"Summary">>)

\* the lines the claim says are recorded, in order
DllLinesInSection(lines) ==
    LET idx == SelectSeq([i \in 1..Len(lines) |-> i],
                         LAMBDA i : /\ EndsWith(Strip(lines[i]), <<".dll">>)
                                    /\ InDependencySection(lines, i))
    IN [k \in 1..Len(idx) |-> Strip(lines[idx[k]])]

\* C16: on Windows the recorded dependencies are exactly the lines ending in
\* ".dll" that come after the first marker line and before the first Summary
\* line after it; no line at or after Summary becomes a dependency.
C16_DependenciesOnlyInSection ==
    DumpbinParsed =>
        [k \in 1..Len(Deps) |-> Deps[k].name] = DllLinesInSection(tool.stdout)


\* otool ran, exited 0 and printed at least one line
OtoolListed ==
    /\ Verified /\ IsFile(binaryState) /\ platform = "Darwin"
    /\ tool.kind = "ran" /\ tool.returncode = 0
    /\ Len(tool.stdout) >= 1

IsToolError(r) == r.message # <<>> /\ r.message[1] = "Error running otool: "

\* C17: on macOS, for a successful output of n >= 1 lines the first line is
\* discarded and the dependencies are the n-1 remaining lines in order, the
\* path of each being the first whitespace-delimited token of its line; this
\* holds whatever the remaining lines contain (blank lines included), and
\* never becomes a tool-error result.
C17_OneDependencyPerLine ==
    OtoolListed =>
        /\ ~IsToolError(result)
        /\ Len(Deps) = Len(tool.stdout) - 1
        /\ \A i \in 1..Len(Deps) :
               ~IsBlank(tool.stdout[i + 1]) =>
                   Deps[i].path = SomePath(SplitWs(tool.stdout[i + 1])[1])


\* the result is an ERROR because the tool could not be run to completion:
\* executable not found, timeout, or a non-zero exit the back end rejects
ToolRunError ==
    /\ Verified /\ IsFile(binaryState) /\ Supported
    /\ result.status = ERROR
    /\ \/ tool.kind \in {"notfound", "timeout"}
       \/ tool.kind = "ran" /\ tool.returncode # 0 /\ platform \in {"Darwin", "Windows"}

\* C18: every ERROR result caused by a failure to run the inspection tool
\* carries a non-empty remediation hint in details, on each platform.
C18_ToolErrorHasHint ==
    ToolRunError => result.details # <<>>


\* the inspection command that belongs to a platform
ToolOf(plat) ==
    CASE plat = "Linux" -> <<"ldd", "build/myapp">>
      [] plat = "Darwin" -> <<"otool", "-L", "build/myapp">>
      [] plat = "Windows" -> <<"dumpbin", "/dependents", "build/myapp">>
      [] OTHER -> <<>>

\* C19: in every execution of verify() the inspection tool is invoked at most
\* once, and exactly once iff the binary is an existing regular file on a
\* supported platform; the command is the one of the detected platform; a
\* failed invocation is not followed by another.
C19_ToolInvokedAtMostOnce ==
    /\ Len(invoked) <= 1
    /\ (pc = "start") => invoked = <<>>
    /\ (pc \notin {"start", "off"}) =>
           ((Len(invoked) = 1) <=> (binaryState = "file" /\ Supported))
    /\ \A i \in 1..Len(invoked) : invoked[i] = ToolOf(platform)

C19_Witness ==
    /\ pc = "exited" /\ platform = "Darwin" /\ tool.kind = "timeout"
    /\ invoked = << <<"otool", "-L", "build/myapp">> >>
    /\ result.status = ERROR


\* C20: for every input and every behaviour of the tool, verify() ends by
\* returning one complete VerificationResult with status SUCCESS, WARNING or
\* ERROR; no exception escapes; an ERROR has a non-empty message and the
\* process exits with code 1.
C20_VerifyAlwaysReturns ==
    (pc # "start") =>
        /\ result.status \in Status
        /\ result.platform # ""
        /\ (result.status = ERROR) => result.message # <<>>
        /\ (pc = "exited" /\ result.status = ERROR) => exitCode = 1


\* the atoms of the line vocabularies that begin with "/"
RootedAtoms ==
    {"/lib/", "/lib64/", "/usr", "/opt/foo/", "/opt/homebrew", "/opt/sysroot", "/System/Library/"}

\* the path begins with "/"
IsAbsolutePath(p) == p # <<>> /\ p[1] \in RootedAtoms

\* C21: in every result each dependency's path is absent or an absolute
\* filesystem path; a Linux line such as "libfoo.so => not found" or
\* "linux-vdso.so.1 => (0x...)" yields no non-path token as path, and on
\* Windows the path is always absent.
C21_PathAbsentOrAbsolute ==
    Verified =>
        \A i \in 1..Len(Deps) :
            /\ Deps[i].path.some => IsAbsolutePath(Deps[i].path.val)
            /\ (platform = "Windows") => ~Deps[i].path.some


\* C22: the platform field of every result equals the operating system
\* identifier detected at construction, so all outcomes of verify() on one
\* host carry the same platform value.
C22_PlatformFieldIsDetected ==
    Verified => result.platform = platform


\* the steps of main in the order of the source text
MainOrder == <<"clean", "configure", "build", "verify">>

\* the steps the command line asks for
StepRequested(s) ==
    CASE s = "clean" -> cleanFlag
      [] s = "verify" -> verifyFlag
      [] OTHER -> TRUE

RequestedSteps == SelectSeq(MainOrder, StepRequested)

IsPrefix(a, b) == Len(a) <= Len(b) /\ SubSeq(b, 1, Len(a)) = a

\* some step that has ended did not succeed
SomeStepFailed == \E i \in 1..Len(finished) : finished[i] # "ok"

\* verify_binaries() has run to its end
VerifyFinished ==
    /\ Len(started) = Len(finished)
    /\ started # <<>>
    /\ started[Len(started)] = "verify"

\* C23: main runs clean (only with --clean), configure, build, verify (only
\* with --verify) in this order; a step starts only after every earlier step
\* succeeded; a failed step (a verification that found no binaries included)
\* ends the process with exit code 1, no later step and no success banner.
C23_StepsInOrderStopOnFailure ==
    /\ IsPrefix(started, RequestedSteps)
    /\ Len(finished) \in {Len(started), Len(started) - 1}
    /\ \A i \in 1..(Len(started) - 1) : finished[i] = "ok"
    /\ SomeStepFailed => mpc = "exited" /\ mainExit = 1 /\ ~banner
    /\ (VerifyFinished /\ binaries = <<>>) => mpc = "exited" /\ mainExit = 1 /\ ~banner
    /\ banner => started = RequestedSteps /\ ~SomeStepFailed

\* a requested verification found no binaries after a clean, configure and
\* build that succeeded, and main exited with 1
C23_Witness ==
    /\ mpc = "exited"
    /\ cleanFlag
    /\ verifyFlag
    /\ binaries = <<>>
    /\ started = MainOrder
    /\ finished = <<"ok", "ok", "ok", "failed">>
    /\ mainExit = 1
    /\ ~banner


\* the elements of a list
Range(s) == {s[i] : i \in 1..Len(s)}

\* the lines of the task's own block: those after the first line naming it,
\* up to the next task line
OwnBlock(ls, id) ==
    LET i == FindTask(ls, id)
    IN  IF i = 0 THEN {}
        ELSE {j \in (i + 1)..Len(ls) : \A h \in (i + 1)..j : ~AnyTaskIdRe(ls[h])}

\* update_task_status ran to its end with a valid status
TasksDone == tpc = "done"

\* C24: with a valid status, every requested task id ends in exactly one of
\* the lists updated and not_found; for an id in updated a status line of its
\* own block holds the new status, for an id in not_found the exit code is 1;
\* and the written file differs from the original only in status lines of
\* the blocks of updated tasks.
C24_EveryIdAccountedFor ==
    TasksDone =>
        /\ \A id \in Range(task_ids) :
              /\ (id \in Range(updated)) # (id \in Range(not_found))
              /\ id \in Range(updated) =>
                    \E j \in OwnBlock(written, id) :
                        written[j].key = "status" /\ written[j].value = newStatus
              /\ id \in Range(not_found) => taskExit = 1
        /\ Len(written) = Len(original)
        /\ \A j \in 1..Len(written) :
              written[j] # original[j] =>
                  /\ original[j].key = "status"
                  /\ \E id \in Range(updated) : j \in OwnBlock(original, id)

====
